---------------------------- MODULE Spec2Model ----------------------------
(***************************************************************************)
(* ffmpeg-for: a batch encoder CLI (src/ffmpeg_for/ffmpeg_for.py, util.py). *)
(*                                                                         *)
(* The controller is one sequential thread.  Its blocking points are the   *)
(* waits on a child process (encoder, probe, metrics tool) and the         *)
(* one-second sleeps of the countdown.  An action of the model is the code *)
(* that runs from one blocking point to the next; a KeyboardInterrupt is   *)
(* delivered at a blocking point.                                          *)
(*                                                                         *)
(* Paths are sequences of one-character strings, so that splitext,         *)
(* basename, dirname, join, lower and the [:64] slice are computed on the  *)
(* characters as the library computes them.  Durations are in              *)
(* milliseconds (the code holds them as floats in seconds).                *)
(***************************************************************************)
EXTENDS Integers, Sequences, FiniteSets, TLC

----------------------------------------------------------------------------
(* Bounds of the model. *)

\* longest job list (number of positional input_file_paths)
MaxFiles == 2

\* most KeyboardInterrupts delivered during one run
MaxInterrupts == 2

----------------------------------------------------------------------------
(* Characters and strings. *)

UpperCase == <<"A","B","C","D","E","F","G","H","I","J","K","L","M",
               "N","O","P","Q","R","S","T","U","V","W","X","Y","Z">>

LowerCase == <<"a","b","c","d","e","f","g","h","i","j","k","l","m",
               "n","o","p","q","r","s","t","u","v","w","x","y","z">>

Digits == <<"0","1","2","3","4","5","6","7","8","9">>

\* str.lower() on one character
lower_char(c) ==
    IF \E i \in 1..26 : UpperCase[i] = c
    THEN LowerCase[CHOOSE i \in 1..26 : UpperCase[i] = c]
    ELSE c

\* str.lower()
lower(s) == [i \in 1..Len(s) |-> lower_char(s[i])]

\* the decimal text of a natural number, as an f-string renders {count}
RECURSIVE int_to_str(_)
int_to_str(n) ==
    IF n < 10 THEN <<Digits[n + 1]>>
    ELSE int_to_str(n \div 10) \o <<Digits[(n % 10) + 1]>>

\* s[:k]
slice_to(s, k) == SubSeq(s, 1, IF Len(s) < k THEN Len(s) ELSE k)

\* str.rfind(c), 1-based; 0 when c does not occur
rfind(s, c) ==
    IF \E i \in 1..Len(s) : s[i] = c
    THEN CHOOSE i \in 1..Len(s) : s[i] = c /\ \A j \in (i+1)..Len(s) : s[j] # c
    ELSE 0

\* os.path.splitext: <<root, ext>>; a name made of leading dots only has no ext
splitext(p) ==
    LET sep == rfind(p, "/")
        dot == rfind(p, ".")
    IN  IF dot > sep /\ \E j \in (sep+1)..(dot-1) : p[j] # "."
        THEN <<SubSeq(p, 1, dot - 1), SubSeq(p, dot, Len(p))>>
        ELSE <<p, <<>> >>

\* os.path.basename
basename(p) == SubSeq(p, rfind(p, "/") + 1, Len(p))

\* os.path.dirname: the head up to the last slash, trailing slashes stripped
\* unless the head is all slashes
dirname(p) ==
    LET head == SubSeq(p, 1, rfind(p, "/"))
    IN  IF head # <<>> /\ \E j \in 1..Len(head) : head[j] # "/"
        THEN SubSeq(head, 1, CHOOSE k \in 1..Len(head) :
                        head[k] # "/" /\ \A j \in (k+1)..Len(head) : head[j] = "/")
        ELSE head

\* os.path.join(a, b)
join(a, b) ==
    IF b # <<>> /\ b[1] = "/" THEN b
    ELSE IF a = <<>> \/ a[Len(a)] = "/" THEN a \o b
    ELSE a \o <<"/">> \o b

----------------------------------------------------------------------------
(* Program constants. *)

ALLOWED_EXT_LIST ==
    { <<".","a","v","i">>, <<".","f","l","v">>, <<".","m","4","v">>,
      <<".","m","k","v">>, <<".","m","o","v">>, <<".","m","p","4">>,
      <<".","w","e","b","m">> }

\* basename_without_ext[:64]
StemLimit == 64

\* "if count > 100" : the last count tried
MaxAttempts == 100

\* countdown_with_sleep accepts 0 < interval <= 3600
IntervalMax == 3600

\* countdown_with_sleep(10) before the metrics tool
GraceSeconds == 10

\* abs(...) < 0.05 seconds, in milliseconds
ToleranceMs == 50

\* sys.exit(130) in exit_with_interrupt
InterruptStatus == 130

OutputPrefix == <<"o","u","t","p","u","t","-">>

MetricsSuffix == <<"-","m","e","t","r","i","c","s",".","t","x","t">>

----------------------------------------------------------------------------
(* The filesystem: a set of entries [path, kind, data], one per path.      *)

NoData == [indent |-> 0, doc |-> <<>>]

FileEntry(p) == [path |-> p, kind |-> "file", data |-> NoData]

DirEntry(p) == [path |-> p, kind |-> "dir", data |-> NoData]

\* os.path.exists
exists(p, disk) == \E e \in disk : e.path = p

\* os.path.isfile
isfile(p, disk) == \E e \in disk : e.path = p /\ e.kind = "file"

\* open(p, "w") ... f.write(d): creates the file or replaces its content
write_file(p, d, disk) ==
    {e \in disk : e.path # p} \cup {[path |-> p, kind |-> "file", data |-> d]}

----------------------------------------------------------------------------
(* Pure functions of ffmpeg_for.py. *)

\* is_valid_video_file without the path.isfile test
is_valid_video_file_ext_only(video_path, disk) ==
    lower(splitext(video_path)[2]) \in ALLOWED_EXT_LIST

is_valid_video_file(video_path, disk) ==
    LET ext == splitext(video_path)[2]
    IN  lower(ext) \in ALLOWED_EXT_LIST /\ isfile(video_path, disk)

\* the candidate built in one pass of the loop of get_output_path
output_candidate(input_file_path, output_ext, count) ==
    LET dir   == dirname(input_file_path)
        split == splitext(basename(input_file_path))
        stem  == join(dir, OutputPrefix \o slice_to(split[1], StemLimit))
        numbered == IF count > 1 THEN stem \o <<"-">> \o int_to_str(count) ELSE stem
    IN  IF output_ext # <<>> THEN numbered \o output_ext ELSE numbered \o split[2]

\* get_output_path giving up one count early ("count >= 100")
get_output_path_stops_early(input_file_path, output_ext, disk) ==
    LET free(count) == ~exists(output_candidate(input_file_path, output_ext, count), disk)
    IN  IF \E count \in 1..(MaxAttempts - 1) : free(count)
        THEN [ok |-> TRUE,
              path |-> output_candidate(input_file_path, output_ext,
                          CHOOSE count \in 1..(MaxAttempts - 1) :
                              free(count) /\ \A c \in 1..(count - 1) : ~free(c))]
        ELSE [ok |-> FALSE, path |-> <<>>]

\* get_output_path: the loop tries count = 1, 2, ... and returns the first
\* candidate that does not exist; "count > 100" after the increment ends it
\* with sys.exit(1) once count 100 has been tried.
\* [ok |-> TRUE, path |-> p] on return, [ok |-> FALSE, ...] on sys.exit(1)
get_output_path(input_file_path, output_ext, disk) ==
    LET free(count) == ~exists(output_candidate(input_file_path, output_ext, count), disk)
    IN  IF \E count \in 1..MaxAttempts : free(count)
        THEN [ok |-> TRUE,
              path |-> output_candidate(input_file_path, output_ext,
                          CHOOSE count \in 1..MaxAttempts :
                              free(count) /\ \A c \in 1..(count - 1) : ~free(c))]
        ELSE [ok |-> FALSE, path |-> <<>>]

\* is_same_video_duration with <= for <
is_same_video_duration_inclusive(original_ms, converted_ms) ==
    LET d == original_ms - converted_ms
    IN  (IF d < 0 THEN -d ELSE d) <= ToleranceMs

is_same_video_duration(original_ms, converted_ms) ==
    LET d == original_ms - converted_ms
    IN  (IF d < 0 THEN -d ELSE d) < ToleranceMs

\* path.splitext(output_filename)[0] + "-metrics.txt"
metrics_filename(output_filename) == splitext(output_filename)[1] \o MetricsSuffix

\* print_progress without the error count taken off
print_progress_gross(current, total, error) ==
    [type |-> "progress", first |-> current, second |-> total,
     failed |-> IF error # 0 THEN <<error>> ELSE <<>>,
     noun |-> IF error # 0 THEN (IF error # 1 THEN <<"files">> ELSE <<"file">>) ELSE <<>>]

\* the message print_progress prints
print_progress(current, total, error) ==
    [type |-> "progress", first |-> current - error, second |-> total - error,
     failed |-> IF error # 0 THEN <<error>> ELSE <<>>,
     noun |-> IF error # 0 THEN (IF error # 1 THEN <<"files">> ELSE <<"file">>) ELSE <<>>]

\* the guard of countdown_with_sleep
countdown_runs(interval) == 0 < interval /\ interval <= IntervalMax

\* the message of one countdown step
countdown_message(c) ==
    [type |-> "waiting", counter |-> c, noun |-> IF c # 1 THEN "seconds" ELSE "second"]

----------------------------------------------------------------------------
(* The state. *)

VARIABLES
    args,               \* parse_args(): input_file_paths, ffmpeg_options, interval,
                        \* output_ext, calc_metrics
    fs,                 \* the filesystem
    current_count,      \* position in the job list (0 before the loop)
    error_count,        \* main's error_count
    pc,                 \* where the controller is: "loop", a blocking point, or "exited"
    counter,            \* countdown_with_sleep's loop variable while it sleeps
    output_file_path,   \* main's output_file_path
    original_ms,        \* get_video_duration(original) in is_same_video_duration (0: none)
    converted_ms,       \* get_video_duration(converted) in is_same_video_duration (0: none)
    metrics_json,       \* main's metrics_json, the captured output of the metrics tool
    procs,              \* every child process started, in order, with its state
    out,                \* what was printed on standard output, in order
    err,                \* what was printed on standard error, in order
    exit_status,        \* <<>> while running, <<status>> once the process has exited
    uncaught,           \* the exception that ended the process, "" if none
    interrupts          \* KeyboardInterrupts delivered so far

vars == <<args, fs, current_count, error_count, pc, counter, output_file_path,
          original_ms, converted_ms, metrics_json, procs, out, err, exit_status,
          uncaught, interrupts>>

\* the controller's state as one record, so that the code between two
\* blocking points composes as functions on it
S ==
    [fs |-> fs, current_count |-> current_count, error_count |-> error_count,
     pc |-> pc, counter |-> counter, output_file_path |-> output_file_path,
     original_ms |-> original_ms, converted_ms |-> converted_ms,
     metrics_json |-> metrics_json, procs |-> procs, out |-> out, err |-> err,
     exit_status |-> exit_status, uncaught |-> uncaught]

Set(t) ==
    /\ fs' = t.fs
    /\ current_count' = t.current_count
    /\ error_count' = t.error_count
    /\ pc' = t.pc
    /\ counter' = t.counter
    /\ output_file_path' = t.output_file_path
    /\ original_ms' = t.original_ms
    /\ converted_ms' = t.converted_ms
    /\ metrics_json' = t.metrics_json
    /\ procs' = t.procs
    /\ out' = t.out
    /\ err' = t.err
    /\ exit_status' = t.exit_status
    /\ uncaught' = t.uncaught
    /\ args' = args

total_files_count == Len(args.input_file_paths)

current_input(s) == args.input_file_paths[s.current_count]

----------------------------------------------------------------------------
(* Steps of the code, as functions on the controller's state. *)

print(s, m) == [s EXCEPT !.out = Append(@, m)]

sys_exit(s, status) == [s EXCEPT !.pc = "exited", !.exit_status = <<status>>]

\* an exception nothing catches: traceback, exit status 1
raise_uncaught(s, exc) ==
    [s EXCEPT !.pc = "exited", !.exit_status = <<1>>, !.uncaught = exc]

\* exit_with_interrupt leaving with the status of a failure
exit_with_interrupt_status_1(s) ==
    sys_exit(print(s, [type |-> "interrupted"]), 1)

exit_with_interrupt(s) ==
    sys_exit(print(s, [type |-> "interrupted"]), InterruptStatus)

\* a child process: `argv` are its path arguments in command-line order,
\* `options` the words between them (the encoder's only)
Popen(s, tool, argv, options) ==
    [s EXCEPT !.procs = Append(@, [tool |-> tool, argv |-> argv, options |-> options,
                                   state |-> "running", sigterm |-> FALSE])]

\* shlex.split(options): the words, or ValueError for None (the module's
\* f-strings need Python 3.12, whose shlex.split refuses None) and for a
\* string with an unclosed quotation
shlex_split(options) ==
    IF options.kind = "words" THEN [ok |-> TRUE, words |-> options.words]
    ELSE [ok |-> FALSE, words |-> <<>>]

\* the child being waited for is the last one started
child_exited(s) == [s EXCEPT !.procs[Len(s.procs)].state = "exited"]

terminate(s) == [s EXCEPT !.procs[Len(s.procs)].sigterm = TRUE]

\* the two floats of is_same_video_duration are temporaries: gone once the
\* controller moves on from the comparison
drop_temporaries(s) == [s EXCEPT !.original_ms = 0, !.converted_ms = 0]

\* main, line 173
report_progress(s) ==
    [print(s, print_progress(s.current_count, total_files_count, s.error_count))
        EXCEPT !.pc = "loop"]

\* main, line 161: output_file_path = get_output_path(...), or its sys.exit(1)
call_get_output_path(s) ==
    LET r == get_output_path(current_input(s), args.output_ext, s.fs)
    IN  IF r.ok THEN [s EXCEPT !.output_file_path = r.path]
        ELSE sys_exit(print(s, [type |-> "too_many"]), 1)

\* main, lines 161-162, up to the wait of run_ffmpeg
start_run_ffmpeg(s) ==
    LET s1 == call_get_output_path(s)
        ffmpeg_options == shlex_split(args.ffmpeg_options)
    IN  IF s1.pc = "exited" THEN s1
        ELSE IF ~ffmpeg_options.ok THEN raise_uncaught(s1, "ValueError")
        ELSE [Popen(s1, "ffmpeg", <<current_input(s1), s1.output_file_path>>,
                    ffmpeg_options.words)
                 EXCEPT !.pc = "encode_wait"]

\* main, lines 168-170, up to communicate() of run_ffmpeg_quality_metrics
start_quality_metrics(s) ==
    [Popen(print(s, [type |-> "calculating", path |-> s.output_file_path]),
           "ffmpeg-quality-metrics", <<s.output_file_path, current_input(s)>>, <<>>)
        EXCEPT !.pc = "metrics_wait"]

\* what follows a countdown that sleeps at `where`
after_countdown(s, where) ==
    IF where = "interval_sleep" THEN start_run_ffmpeg(s) ELSE start_quality_metrics(s)

\* countdown_with_sleep up to its first sleep(1), or through it when it returns at once
countdown_with_sleep(s, interval, where) ==
    IF ~countdown_runs(interval) THEN after_countdown(s, where)
    ELSE [print(print(s, [type |-> "newline"]), countdown_message(interval))
             EXCEPT !.pc = where, !.counter = interval]

\* a sleep(1) of the countdown returns
sleep_returns(s) ==
    IF s.counter > 1
    THEN [print(s, countdown_message(s.counter - 1)) EXCEPT !.counter = @ - 1]
    ELSE after_countdown([print(s, [type |-> "newline"]) EXCEPT !.counter = 0], s.pc)

\* start_file without "if current_count != 1"
start_file_waits_before_first(s) ==
    LET k == s.current_count + 1
        p == args.input_file_paths[k]
        s1 == [s EXCEPT !.current_count = k]
    IN  IF ~is_valid_video_file(p, s.fs)
        THEN [print(s1, [type |-> "invalid", path |-> p])
                 EXCEPT !.error_count = @ + 1]
        ELSE countdown_with_sleep(s1, args.interval, "interval_sleep")

\* one pass of the for loop of main up to its first blocking point
start_file(s) ==
    LET k == s.current_count + 1
        p == args.input_file_paths[k]
        s1 == [s EXCEPT !.current_count = k]
    IN  IF ~is_valid_video_file(p, s.fs)
        THEN [print(s1, [type |-> "invalid", path |-> p])
                 EXCEPT !.error_count = @ + 1]
        ELSE IF k # 1
        THEN countdown_with_sleep(s1, args.interval, "interval_sleep")
        ELSE start_run_ffmpeg(s1)

\* run_ffmpeg has returned: line 164
after_run_ffmpeg(s) ==
    IF args.calc_metrics
    THEN [Popen(s, "ffprobe", <<current_input(s)>>, <<>>) EXCEPT !.pc = "probe1_wait"]
    ELSE report_progress(s)

\* get_video_duration(original) returns: float(stdout.strip())
after_probe_original(s, stdout) ==
    IF stdout.kind # "float" THEN raise_uncaught(s, "ValueError")
    ELSE [Popen(s, "ffprobe", <<s.output_file_path>>, <<>>)
             EXCEPT !.original_ms = stdout.ms, !.pc = "probe2_wait"]

\* get_video_duration(converted) returns, then lines 164-167
after_probe_converted(s, stdout) ==
    IF stdout.kind # "float" THEN raise_uncaught(s, "ValueError")
    ELSE LET s1 == [s EXCEPT !.converted_ms = stdout.ms]
         IN  IF is_same_video_duration(s1.original_ms, s1.converted_ms)
             THEN countdown_with_sleep(s1, GraceSeconds, "grace_sleep")
             ELSE report_progress(s1)

\* write_metrics_global without its try/except
write_metrics_global_uncaught(s, metrics) ==
    IF metrics.kind # "json" THEN raise_uncaught(s, "JSONDecodeError")
    ELSE IF metrics.global = <<>> THEN raise_uncaught(s, "KeyError")
    ELSE [s EXCEPT !.fs = write_file(metrics_filename(s.output_file_path),
                                     [indent |-> 4, doc |-> metrics.global[1]], @)]

write_metrics_global(s, metrics) ==
    LET name == metrics_filename(s.output_file_path)
    IN  IF metrics.kind # "json"
        THEN [s EXCEPT !.err = Append(@, [type |-> "metrics_failed", file |-> name,
                                          error |-> "JSONDecodeError"])]
        ELSE IF metrics.global = <<>> THEN raise_uncaught(s, "KeyError")
        ELSE [s EXCEPT !.fs = write_file(name, [indent |-> 4, doc |-> metrics.global[1]], @)]

\* run_ffmpeg_quality_metrics returns, then lines 171-173
after_quality_metrics(s, stdout) ==
    LET s1 == write_metrics_global([s EXCEPT !.metrics_json = stdout], stdout)
    IN  IF s1.pc = "exited" THEN s1 ELSE report_progress(s1)

\* KeyboardInterrupt raised at the blocking point s.pc
keyboard_interrupt(s) ==
    CASE s.pc = "encode_wait" -> [s EXCEPT !.pc = "encode_wait_except"]
      [] s.pc \in {"probe1_wait", "probe2_wait"} ->
            [terminate(s) EXCEPT !.pc = "probe_wait_except"]
      [] s.pc = "metrics_wait" -> [terminate(s) EXCEPT !.pc = "metrics_wait_except"]
      [] OTHER -> exit_with_interrupt(s)

----------------------------------------------------------------------------
(* The environment: the job lists, the disks and what the children print.  *)

Ext_mp4 == <<".","m","p","4">>

Ext_MKV == <<".","M","K","V">>

Ext_mkv == <<".","m","k","v">>

Ext_mov == <<".","m","o","v">>

Ext_txt == <<".","t","x","t">>

\* a path from its parts; the parts are what the claims are stated in
MkPath(c) == (IF c.dir = <<>> THEN <<>> ELSE c.dir \o <<"/">>) \o c.stem \o c.ext

A_mp4 == [dir |-> <<"d">>, stem |-> <<"a">>, ext |-> Ext_mp4]

A_MKV == [dir |-> <<"d">>, stem |-> <<"a">>, ext |-> Ext_MKV]

N_txt == [dir |-> <<"d">>, stem |-> <<"n">>, ext |-> Ext_txt]

V_mov == [dir |-> <<"d">>, stem |-> <<"v">>, ext |-> Ext_mov]

\* the paths a job list is made of
Pool == {A_mp4, A_MKV, N_txt, V_mov}

\* every job list of up to MaxFiles paths, and the lists of three files of
\* which one is invalid
JobLists ==
    UNION { [1..n -> {MkPath(c) : c \in Pool}] : n \in 1..MaxFiles }
    \cup { <<MkPath(N_txt), MkPath(A_mp4), MkPath(A_MKV)>>,
           <<MkPath(A_mp4), MkPath(N_txt), MkPath(A_MKV)>>,
           <<MkPath(A_mp4), MkPath(A_MKV), MkPath(N_txt)>> }

\* the name the claims give the k-th output of an input with parts c,
\* without its extension
ExpectedRoot(c, k) ==
    (IF c.dir = <<>> THEN <<>> ELSE c.dir \o <<"/">>)
    \o OutputPrefix \o slice_to(c.stem, StemLimit)
    \o (IF k = 1 THEN <<>> ELSE <<"-">> \o int_to_str(k))

\* and with it
ExpectedCandidate(c, output_ext, k) ==
    ExpectedRoot(c, k) \o (IF output_ext # <<>> THEN output_ext ELSE c.ext)

BaseDisk == {FileEntry(MkPath(A_mp4)), FileEntry(MkPath(A_MKV)), FileEntry(MkPath(N_txt))}

\* d/v.mov is missing, or is a directory; an earlier output may be there;
\* or all the output names of d/a.mp4 are taken
InitialDisks ==
    { BaseDisk,
      BaseDisk \cup {DirEntry(MkPath(V_mov)), FileEntry(ExpectedCandidate(A_mp4, <<>>, 1))},
      BaseDisk \cup {FileEntry(ExpectedCandidate(A_mp4, <<>>, k)) : k \in 1..MaxAttempts} }

Intervals == {0, 2, IntervalMax + 1}

\* --ffmpeg-options: words, a string with an unclosed quotation, or not given
FfmpegOptions ==
    { [kind |-> "words", words |-> <<"-c:v", "libx264">>],
      [kind |-> "unclosed", words |-> <<>>],
      [kind |-> "none", words |-> <<>>] }

OutputExts == {<<>>, Ext_mkv}

Durations == {9950, 10000, 10040, 10060}

Unparseable == [kind |-> "text", ms |-> 0]

\* metrics_json before the metrics tool has run
NoCapture == [kind |-> "none", global |-> <<>>]

\* what ffprobe prints for a path: a duration, or nothing a float can be read from
ProbeStdout(p, disk) ==
    IF isfile(p, disk)
    THEN {[kind |-> "float", ms |-> d] : d \in Durations} \cup {Unparseable}
    ELSE {Unparseable}

\* what ffmpeg-quality-metrics prints for <<converted, original>>
MetricsStdout(argv) ==
    { [kind |-> "json", global |-> <<argv>>],
      [kind |-> "json", global |-> <<>>],
      [kind |-> "garbage", global |-> <<>>] }

\* the encoder exits, having written its output file or not
encoder_exited(s, created) ==
    IF created
    THEN [child_exited(s) EXCEPT !.fs = write_file(s.output_file_path, NoData, @)]
    ELSE child_exited(s)

----------------------------------------------------------------------------
(* The specification. *)

Init ==
    /\ args \in [input_file_paths : JobLists, ffmpeg_options : FfmpegOptions,
                 interval : Intervals, output_ext : OutputExts,
                 calc_metrics : BOOLEAN]
    /\ fs \in InitialDisks
    /\ current_count = 0
    /\ error_count = 0
    /\ pc = "loop"
    /\ counter = 0
    /\ output_file_path = <<>>
    /\ original_ms = 0
    /\ converted_ms = 0
    /\ metrics_json = NoCapture
    /\ procs = <<>>
    /\ out = <<>>
    /\ err = <<>>
    /\ exit_status = <<>>
    /\ uncaught = ""
    /\ interrupts = 0

NextFile ==
    /\ pc = "loop"
    /\ current_count < total_files_count
    /\ Set(start_file(drop_temporaries(S)))
    /\ UNCHANGED interrupts

MainReturns ==
    /\ pc = "loop"
    /\ current_count = total_files_count
    /\ Set(sys_exit(drop_temporaries(S), 0))
    /\ UNCHANGED interrupts

SleepReturns ==
    /\ pc \in {"interval_sleep", "grace_sleep"}
    /\ Set(sleep_returns(drop_temporaries(S)))
    /\ UNCHANGED interrupts

EncoderExits ==
    /\ pc = "encode_wait"
    /\ \E created \in BOOLEAN : Set(after_run_ffmpeg(encoder_exited(S, created)))
    /\ UNCHANGED interrupts

\* process.wait() in the except clause of run_ffmpeg returns
EncoderExitsInExcept ==
    /\ pc = "encode_wait_except"
    /\ \E created \in BOOLEAN : Set(exit_with_interrupt(encoder_exited(S, created)))
    /\ UNCHANGED interrupts

ProbeOriginalExits ==
    /\ pc = "probe1_wait"
    /\ \E o \in ProbeStdout(current_input(S), fs) :
          Set(after_probe_original(child_exited(S), o))
    /\ UNCHANGED interrupts

ProbeConvertedExits ==
    /\ pc = "probe2_wait"
    /\ \E o \in ProbeStdout(output_file_path, fs) :
          Set(after_probe_converted(child_exited(S), o))
    /\ UNCHANGED interrupts

MetricsExits ==
    /\ pc = "metrics_wait"
    /\ \E o \in MetricsStdout(procs[Len(procs)].argv) :
          Set(after_quality_metrics(child_exited(S), o))
    /\ UNCHANGED interrupts

\* process.wait() after process.terminate() returns, in get_video_duration
\* or run_ffmpeg_quality_metrics
TerminatedChildExits ==
    /\ pc \in {"probe_wait_except", "metrics_wait_except"}
    /\ Set(exit_with_interrupt(child_exited(S)))
    /\ UNCHANGED interrupts

KeyboardInterrupt ==
    /\ pc # "loop"
    /\ pc # "exited"
    /\ interrupts < MaxInterrupts
    /\ Set(keyboard_interrupt(drop_temporaries(S)))
    /\ interrupts' = interrupts + 1

Next ==
    \/ NextFile
    \/ MainReturns
    \/ SleepReturns
    \/ EncoderExits
    \/ EncoderExitsInExcept
    \/ ProbeOriginalExits
    \/ ProbeConvertedExits
    \/ MetricsExits
    \/ TerminatedChildExits
    \/ KeyboardInterrupt

Spec == Init /\ [][Next]_vars

----------------------------------------------------------------------------
(* get_output_path on its own: one call, over more names and fuller disks. *)

Ext_webm == <<".","w","e","b","m">>

\* a stem of n characters: n-1 times "a", then `last`
LongStem(n, last) == [i \in 1..n |-> IF i < n THEN "a" ELSE last]

PathPool ==
    { A_mp4, A_MKV,
      [dir |-> <<>>, stem |-> <<"b">>, ext |-> Ext_webm],
      [dir |-> <<"d","/","e">>, stem |-> <<"a",".","b">>, ext |-> Ext_mov],
      [dir |-> <<"d">>, stem |-> <<".","m","p","4">>, ext |-> <<>>],
      [dir |-> <<"d">>, stem |-> LongStem(StemLimit, "x"), ext |-> Ext_mp4],
      [dir |-> <<"d">>, stem |-> LongStem(StemLimit + 1, "x"), ext |-> Ext_mp4],
      [dir |-> <<"d">>, stem |-> LongStem(StemLimit + 2, "y"), ext |-> Ext_mp4] }

\* which of the MaxAttempts output names are taken: the first m of them, or
\* all but one
TakenSets ==
    { 1..m : m \in {0, 1, 2, 9, 10, 11, MaxAttempts - 2, MaxAttempts - 1, MaxAttempts} }
    \cup { (1..MaxAttempts) \ {h} : h \in {1, 2, 10, MaxAttempts - 1, MaxAttempts} }

PathDisks(c, output_ext) ==
    { {FileEntry(ExpectedCandidate(c, output_ext, k)) : k \in taken}
        \cup {FileEntry(MkPath(c))} : taken \in TakenSets }
    \cup { {FileEntry(MkPath(c)), DirEntry(ExpectedCandidate(c, output_ext, 1)),
            FileEntry(ExpectedCandidate(c, output_ext, 3))} }

InitPath ==
    /\ \E c \in PathPool, e \in OutputExts \cup {<<"w","e","b","m">>} :
          /\ args = [input_file_paths |-> <<MkPath(c)>>,
                     ffmpeg_options |-> [kind |-> "none", words |-> <<>>],
                     interval |-> 0, output_ext |-> e, calc_metrics |-> FALSE]
          /\ fs \in PathDisks(c, e)
    /\ current_count = 1
    /\ error_count = 0
    /\ pc = "get_output_path"
    /\ counter = 0
    /\ output_file_path = <<>>
    /\ original_ms = 0
    /\ converted_ms = 0
    /\ metrics_json = NoCapture
    /\ procs = <<>>
    /\ out = <<>>
    /\ err = <<>>
    /\ exit_status = <<>>
    /\ uncaught = ""
    /\ interrupts = 0

GetOutputPathReturns ==
    /\ pc = "get_output_path"
    /\ LET s1 == call_get_output_path(S)
       IN  Set(IF s1.pc = "exited" THEN s1 ELSE [s1 EXCEPT !.pc = "returned"])
    /\ UNCHANGED interrupts

NextPath == GetOutputPathReturns

SpecPath == InitPath /\ [][NextPath]_vars

----------------------------------------------------------------------------
(* What the claims are stated in: the parts of a path, the messages shown, *)
(* the children started.  None of it is computed by the code's functions.  *)

\* the parts a path of the pools was made of
PartsOf(p) == CHOOSE c \in Pool \cup PathPool : MkPath(c) = p

OnDisk(p) == \E e \in fs : e.path = p

RegularFile(p) == \E e \in fs : e.path = p /\ e.kind = "file"

\* the path is invalid on the current disk: extension (case-insensitively)
\* not in the allow-list, or not an existing regular file
InvalidPath(p) ==
    \/ lower(PartsOf(p).ext) \notin
          {<<".","a","v","i">>, <<".","f","l","v">>, <<".","m","4","v">>,
           <<".","m","k","v">>, <<".","m","o","v">>, <<".","m","p","4">>,
           <<".","w","e","b","m">>}
    \/ ~RegularFile(p)

Positions == 1..Len(args.input_file_paths)

Shown(type) == {i \in DOMAIN out : out[i].type = type}

Started(tool) == {i \in DOMAIN procs : procs[i].tool = tool}

Last(seq) == seq[Len(seq)]

NextPath1 == args.input_file_paths[current_count + 1]

Exited == pc = "exited"

----------------------------------------------------------------------------
(* C4 *)

C4_Result ==
    pc # "get_output_path" =>
        LET c == PartsOf(args.input_file_paths[1])
            cand(k) == ExpectedCandidate(c, args.output_ext, k)
        IN  IF \E k \in 1..100 : ~OnDisk(cand(k))
            THEN /\ pc = "returned"
                 /\ exit_status = <<>>
                 /\ \E k \in 1..100 : /\ ~OnDisk(cand(k))
                                      /\ \A j \in 1..(k - 1) : OnDisk(cand(j))
                                      /\ output_file_path = cand(k)
            ELSE /\ Exited
                 /\ exit_status = <<1>>
                 /\ output_file_path = <<>>

\* C4: get_output_path returns the first of the 100 candidates
\* output-<stem[:64]>, -2, ..., -100 (in the input's directory, with the
\* override extension if given, else the input's) that does not exist; when
\* all 100 exist it returns no path and the process exits with status 1; the
\* filesystem is left as it was.
C4_GetOutputPath == []C4_Result /\ [][fs' = fs]_vars

\* the name with suffix -100 is returned for a stem longer than 64 characters
C4_Witness ==
    /\ pc = "returned"
    /\ Len(PartsOf(args.input_file_paths[1]).stem) > 64
    /\ output_file_path =
          ExpectedCandidate(PartsOf(args.input_file_paths[1]), args.output_ext, 100)
    /\ \A k \in 1..99 :
          OnDisk(ExpectedCandidate(PartsOf(args.input_file_paths[1]), args.output_ext, k))

----------------------------------------------------------------------------
(* C1 *)

\* the step that takes an invalid path: nothing is started, one error is
\* counted, the path is reported, and the loop goes on to the next position
C1_InvalidStep ==
    (pc = "loop" /\ current_count < Len(args.input_file_paths) /\ InvalidPath(NextPath1))
    => /\ procs' = procs
       /\ fs' = fs
       /\ error_count' = error_count + 1
       /\ current_count' = current_count + 1
       /\ pc' = "loop"
       /\ exit_status' = <<>>
       /\ out' = Append(out, [type |-> "invalid", path |-> NextPath1])

\* the step that takes a valid path counts no error and reports nothing
\* invalid; it ends the run only with status 1
C1_ValidStep ==
    (pc = "loop" /\ current_count < Len(args.input_file_paths) /\ ~InvalidPath(NextPath1))
    => /\ error_count' = error_count
       /\ current_count' = current_count + 1
       /\ Shown("invalid")' = Shown("invalid")
       /\ pc' \in {"interval_sleep", "encode_wait", "exited"}
       /\ pc' = "exited"
             => /\ exit_status' = <<1>>
                /\ \/ uncaught' = "ValueError"
                   \/ uncaught' = "" /\ Last(out').type = "too_many"

\* at the exit: every valid file after a skipped invalid path was encoded
C1_LaterValidEncoded ==
    \A k, j \in Positions :
        (/\ k < j
         /\ k <= current_count
         /\ InvalidPath(args.input_file_paths[k])
         /\ ~InvalidPath(args.input_file_paths[j]))
        => \E i \in Started("ffmpeg") :
              procs[i].argv[1] = args.input_file_paths[j] /\ procs[i].state = "exited"

\* at the exit: every position was reported invalid or handed to an encoder
C1_EveryFileHandled ==
    /\ exit_status = <<0>>
    /\ current_count = Len(args.input_file_paths)
    /\ Cardinality(Started("ffmpeg")) + error_count = Len(args.input_file_paths)
    /\ Cardinality(Shown("invalid")) = error_count
    /\ \A k \in Positions :
          \/ \E i \in Shown("invalid") : out[i].path = args.input_file_paths[k]
          \/ \E i \in Started("ffmpeg") : procs[i].argv[1] = args.input_file_paths[k]

\* absent interruption, output-name exhaustion and uncaught exceptions
C1_RunCompletes ==
    (Exited /\ interrupts = 0 /\ Shown("too_many") = {} /\ uncaught = "")
    => C1_EveryFileHandled /\ C1_LaterValidEncoded

\* absent interruption and output-name exhaustion
C1_RunCompletesAsClaimed ==
    (Exited /\ interrupts = 0 /\ Shown("too_many") = {}) => C1_LaterValidEncoded

----------------------------------------------------------------------------
(* C3 *)

\* every step from the first interrupt on
C3_AfterInterrupt ==
    interrupts' > 0
    => /\ Len(procs') = Len(procs)
       /\ current_count' = current_count
       /\ error_count' = error_count
       /\ out' \in {out, Append(out, [type |-> "interrupted"])}
       /\ err' = err
       /\ pc' = "exited" => /\ exit_status' = <<130>>
                            /\ uncaught' = ""
                            /\ Cardinality(Shown("interrupted")') = 1
                            /\ Last(out').type = "interrupted"

\* once interrupted, the controller is at its exit or in the wait of an
\* except clause, and the step it takes from there is the exit
C3_OnlyTheExitFollows ==
    interrupts > 0 => pc' = "exited" /\ exit_status' = <<130>>

\* C3: an interrupt at any blocking point (encoder, probe or metrics wait,
\* interval or grace sleep) aborts the rest of the job list: from then on no
\* child is started and no file is validated or reported, the notice is
\* printed, and the exit status is 130, never 0 or 1.
C3_InterruptAborts == [][C3_AfterInterrupt /\ C3_OnlyTheExitFollows]_vars

\* interrupted in the interval countdown with files left: exit 130
C3_Witness ==
    /\ Exited
    /\ exit_status = <<130>>
    /\ interrupts = 1
    /\ counter > 0
    /\ current_count < Len(args.input_file_paths)
    /\ Last(out).type = "interrupted"

----------------------------------------------------------------------------
(* C6 *)

----------------------------------------------------------------------------
(* C7 *)

MetricsTool == "ffmpeg-quality-metrics"

ExpectedWaiting(c) ==
    [type |-> "waiting", counter |-> c, noun |-> IF c = 1 THEN "second" ELSE "seconds"]

\* the step in which the second probe returns a duration
C7_Decision ==
    (pc = "probe2_wait" /\ pc' \in {"grace_sleep", "loop"})
    => /\ original_ms' = original_ms
       /\ (pc' = "grace_sleep") <=>
             (original_ms' - converted_ms' < 50 /\ converted_ms' - original_ms' < 50)
       /\ (original_ms' = 10000 /\ converted_ms' = 10040) => pc' = "grace_sleep"
       /\ (original_ms' = 10000 /\ converted_ms' = 10060) => pc' = "loop"
       /\ Len(procs') = Len(procs)
       /\ pc' = "grace_sleep" => counter' = 10
       /\ pc' = "loop" => /\ err' = err
                          /\ fs' = fs
                          /\ uncaught' = ""
                          /\ exit_status' = <<>>
                          /\ Len(out') = Len(out) + 1
                          /\ Last(out').type = "progress"

\* the metrics tool is started by the step that ends the grace countdown, and
\* an uninterrupted grace countdown ends in that start
C7_StartStep ==
    /\ (Len(procs') > Len(procs) /\ Last(procs').tool = MetricsTool)
          => pc = "grace_sleep" /\ counter = 1
    /\ (pc = "grace_sleep" /\ counter = 1 /\ interrupts' = interrupts)
          => /\ pc' = "metrics_wait"
             /\ Len(procs') = Len(procs) + 1
             /\ Last(procs').tool = MetricsTool
             /\ Last(procs').argv = <<output_file_path, args.input_file_paths[current_count]>>

\* with the flag unset the encoder's exit leads to the progress report
C7_FlagUnsetStep ==
    (pc = "encode_wait" /\ ~args.calc_metrics /\ interrupts' = interrupts)
    => pc' = "loop" /\ Last(out').type = "progress" /\ Len(procs') = Len(procs)

\* every metrics tool started: the flag is set, the encoder of that file and
\* the two probes have exited before it, and its arguments are (converted,
\* original)
C7_StartedAfterEncoder ==
    \A i \in Started(MetricsTool) :
        /\ args.calc_metrics
        /\ i > 3
        /\ procs[i-3].tool = "ffmpeg" /\ procs[i-3].state = "exited"
        /\ procs[i-2].tool = "ffprobe" /\ procs[i-2].state = "exited"
        /\ procs[i-1].tool = "ffprobe" /\ procs[i-1].state = "exited"
        /\ procs[i].argv = <<procs[i-3].argv[2], procs[i-3].argv[1]>>
        /\ procs[i-2].argv = <<procs[i-3].argv[1]>>
        /\ procs[i-1].argv = <<procs[i-3].argv[2]>>

\* every start of the metrics tool is announced after a countdown 10, ..., 1
C7_GraceShown ==
    /\ Cardinality(Shown("calculating")) = Cardinality(Started(MetricsTool))
    /\ \A j \in Shown("calculating") :
          /\ j > 12
          /\ out[j-1].type = "newline"
          /\ \A c \in 1..10 : out[j-1-c] = ExpectedWaiting(c)
          /\ out[j-12].type = "newline"

C7_NoProbeWithoutFlag ==
    ~args.calc_metrics => Started("ffprobe") = {} /\ Started(MetricsTool) = {}

\* C7: the metrics tool is started iff the flag is set and the probed
\* durations differ by less than 0.05 s (10.00 and 10.04 match, 10.00 and
\* 10.06 do not); it is started only after the encoder of that file has
\* exited and after the 10-second grace wait, with (converted, original);
\* with the flag unset no probe is run; diverging durations skip the metrics
\* with no error reported; both lead to the file's progress report.
C7_MetricsOnlyForSameDuration ==
    /\ [][C7_Decision /\ C7_StartStep /\ C7_FlagUnsetStep]_vars
    /\ [](C7_StartedAfterEncoder /\ C7_GraceShown /\ C7_NoProbeWithoutFlag)

\* durations 10.00 and 10.04 were probed and the grace countdown has begun
C7_Witness ==
    /\ pc = "grace_sleep"
    /\ counter = 10
    /\ original_ms = 10000
    /\ converted_ms = 10040

----------------------------------------------------------------------------
(* C9 *)

\* the metrics file the claims expect for the output of the current input
ExpectedMetricsFile ==
    LET c == PartsOf(args.input_file_paths[current_count])
        k == CHOOSE k \in 1..100 : output_file_path = ExpectedCandidate(c, args.output_ext, k)
    IN  ExpectedRoot(c, k) \o <<"-","m","e","t","r","i","c","s",".","t","x","t">>

\* the step in which the metrics tool's output is captured and is no JSON
C9_UnparseableStep ==
    (pc = "metrics_wait" /\ pc' # "metrics_wait_except" /\ metrics_json'.kind # "json")
    => /\ fs' = fs
       /\ err' = Append(err, [type |-> "metrics_failed", file |-> ExpectedMetricsFile,
                              error |-> "JSONDecodeError"])
       /\ uncaught' = ""
       /\ exit_status' = <<>>
       /\ pc' = "loop"
       /\ current_count' = current_count
       /\ error_count' = error_count
       /\ Len(out') = Len(out) + 1
       /\ Last(out').type = "progress"

\* a run with such diagnostics, not interrupted and not out of output names,
\* ends with status 0 once every position is done
C9_StatusUnaffected ==
    (Exited /\ err # <<>> /\ interrupts = 0 /\ uncaught = "" /\ Shown("too_many") = {})
    => exit_status = <<0>> /\ current_count = Len(args.input_file_paths)

\* C9: a captured metrics output that does not parse as JSON writes no
\* metrics file, puts a diagnostic naming the metrics file and the parse error
\* on the error stream, raises nothing to the top level, and the run goes on
\* with that file's progress report and the rest of the job list, its exit
\* status unaffected.
C9_UnparseableMetrics == [][C9_UnparseableStep]_vars /\ []C9_StatusUnaffected

\* the first file's metrics did not parse, the second file was still encoded,
\* and the run ended with status 0
C9_Witness ==
    /\ exit_status = <<0>>
    /\ Len(err) = 1
    /\ Len(args.input_file_paths) = 2
    /\ Cardinality(Started("ffmpeg")) = 2
    /\ Cardinality(Started(MetricsTool)) = 1

----------------------------------------------------------------------------
(* C10 *)

IntervalInRange == 0 < args.interval /\ args.interval <= 3600

\* the step that takes a valid path: the countdown starts iff the position
\* is not the first and the interval is in (0, 3600]
C10_StartStep ==
    (pc = "loop" /\ current_count < Len(args.input_file_paths) /\ ~InvalidPath(NextPath1))
    => IF current_count' # 1 /\ IntervalInRange
       THEN /\ pc' = "interval_sleep"
            /\ counter' = args.interval
            /\ procs' = procs
            /\ out' = out \o <<[type |-> "newline"], ExpectedWaiting(args.interval)>>
       ELSE /\ pc' # "interval_sleep"
            /\ Shown("waiting")' = Shown("waiting")

\* one second of the countdown: the next lower value is shown, and the
\* encoder is started by the step that ends the last second
C10_TickStep ==
    (pc = "interval_sleep" /\ interrupts' = interrupts)
    => IF counter > 1
       THEN /\ pc' = "interval_sleep"
            /\ counter' = counter - 1
            /\ out' = Append(out, ExpectedWaiting(counter - 1))
            /\ procs' = procs
       ELSE /\ counter = 1
            /\ pc' \in {"encode_wait", "exited"}
            /\ pc' = "encode_wait"
                  => /\ Len(procs') = Len(procs) + 1
                     /\ Last(procs').tool = "ffmpeg"
                     /\ Last(procs').argv[1] = args.input_file_paths[current_count]

\* when the encoder has just been started: the whole countdown interval, ..., 1
\* was shown right before, or none was
C10_EncoderAfterCountdown ==
    pc = "encode_wait"
    => IF current_count # 1 /\ IntervalInRange
       THEN /\ Len(out) >= args.interval + 2
            /\ Last(out).type = "newline"
            /\ \A c \in 1..args.interval : out[Len(out) - c] = ExpectedWaiting(c)
            /\ out[Len(out) - args.interval - 1].type = "newline"
       ELSE out = <<>> \/ Last(out).type \in {"progress", "invalid"}

\* the pause lies after the first position of the job list
C10_PauseAfterFirstPosition ==
    pc = "interval_sleep" => current_count > 1 /\ IntervalInRange

\* the pause lies between encoder invocations
C10_PauseBetweenEncoders ==
    pc = "interval_sleep" => Started("ffmpeg") # {}

\* C10 (amended): before the encoder is started for a file that is not at the
\* first position of the job list, and only if 0 < interval <= 3600, the
\* controller counts down interval, ..., 1 in one-second steps ("second" exactly
\* for 1) and starts the encoder only when the countdown is over; there is no
\* pause before the first position and none for an interval of 0 or outside
\* the range.  The pause lies after the first position; it need not lie
\* between two encoder invocations.
C10_IntervalWait ==
    /\ [][C10_StartStep /\ C10_TickStep]_vars
    /\ [](C10_EncoderAfterCountdown /\ C10_PauseAfterFirstPosition)

\* C10 as claimed: the same, and the pause only ever lies between encoder
\* invocations
C10_AsClaimed ==
    /\ [][C10_StartStep /\ C10_TickStep]_vars
    /\ [](C10_EncoderAfterCountdown /\ C10_PauseBetweenEncoders)

\* the encoder of the second file has been started after the countdown 2, 1
C10_Witness ==
    /\ pc = "encode_wait"
    /\ current_count = 2
    /\ args.interval = 2
    /\ Cardinality(Started("ffmpeg")) = 2
    /\ out[Len(out) - 1] = ExpectedWaiting(1)
    /\ out[Len(out) - 2] = ExpectedWaiting(2)

----------------------------------------------------------------------------
(* C2 *)

\* C2: whenever an interrupt is delivered while the controller waits on a
\* child, the controller exits only after that child has terminated: in no
\* reachable state has the controller exited while a child it started is
\* still running.
C2_NoOrphan ==
    Exited => \A i \in DOMAIN procs : procs[i].state = "exited"

----------------------------------------------------------------------------
(* C5 *)

\* C5: after each file, valid or not, a progress message is printed before
\* the next file is taken; an uninterrupted run over n files prints exactly n
\* progress messages.
C5_ProgressAfterEachFile ==
    /\ (pc = "loop" /\ current_count > 0) => Last(out).type = "progress"
    /\ (exit_status = <<0>> /\ interrupts = 0)
          => Cardinality(Shown("progress")) = Len(args.input_file_paths)

----------------------------------------------------------------------------
(* C8 *)

MetricsFiles == {e \in fs : e.data.indent = 4}

\* C8: an uninterrupted run with --calc-metrics over valid inputs, every
\* encoder writing its output, every probe matching and every metrics output
\* parseable, leaves one output per input and one metrics file per encoded
\* file: the encoder's output paths are pairwise distinct, no metrics file is
\* overwritten by another file's, each holds the "global" part of its own
\* file, and the last message is "N out of N files are encoded.".
C8_OneMetricsFilePerFile ==
    LET n == Len(args.input_file_paths)
    IN  ( /\ exit_status = <<0>>
          /\ args.calc_metrics
          /\ error_count = 0
          /\ err = <<>>
          /\ Cardinality(Started(MetricsTool)) = n
          /\ \A i \in Started("ffmpeg") : RegularFile(procs[i].argv[2]) )
        => /\ \A i, j \in Started("ffmpeg") :
                 i # j => procs[i].argv[2] # procs[j].argv[2]
           /\ Cardinality(MetricsFiles) = n
           /\ \A i \in Started(MetricsTool) :
                 \E e \in MetricsFiles : e.data.doc = procs[i].argv
           /\ Last(out) = [type |-> "progress", first |-> n, second |-> n,
                           failed |-> <<>>, noun |-> <<>>]

=============================================================================
